---- MODULE Spec2Model ----
(***************************************************************************)
(* ZEEL Content EV Simulator (src/app.py): a Streamlit script.  Every      *)
(* change of a sidebar slider re-runs the whole script from the top with    *)
(* the widgets' current values; the script's variables are rebuilt by each  *)
(* run.                                                                     *)
(*                                                                          *)
(* Numbers.  The sliders yield c_tv as an integer (Cr), c_pilot as a        *)
(* multiple of 0.5 (carried here in tenths of a Cr) and the two rates as    *)
(* integer per cents.  The rates are then divided by 100.0, and avg_rate is *)
(* 1.0 - flop_rate - hit_rate in IEEE-754 binary64; the outcome of the      *)
(* test `avg_rate < 0` depends on the rounding of those three operations,   *)
(* so they are modelled bit for bit (F64Div100, F64Sub).  Money amounts are *)
(* carried as exact decimals in units of 0.0001 Cr, with the rates as per   *)
(* cents: the binary64 amounts of the script differ from them only by       *)
(* rounding far below the 1e-9 tolerance the specification allows.          *)
(***************************************************************************)
EXTENDS Integers, Sequences, FiniteSets, TLC

VARIABLES
    c_tv,           \* slider "Legacy TV Production Cost", Cr
    c_pilot,        \* slider "Digital Micro-Pilot Cost", tenths of a Cr
    flop,           \* slider "Estimated Flop Rate (%)"
    hit,            \* slider "Estimated Blockbuster Rate (%)"
    ns,             \* the variables of the last run of the script
    stopped_once    \* history: some earlier run of this session hit st.stop()

vars == <<c_tv, c_pilot, flop, hit, ns, stopped_once>>

---------------------------------------------------------------------------
(* Slider ranges (min, max, step) and defaults.                            *)

TvCosts    == {20 + 5 * k : k \in 0..16}
PilotCosts == {10 + 5 * k : k \in 0..8}
FlopPcts   == {30 + 5 * k : k \in 0..10}
HitPcts    == {5 + 5 * k : k \in 0..5}

DefaultTv    == 50
DefaultPilot == 20
DefaultFlop  == 60
DefaultHit   == 10

N == 10

---------------------------------------------------------------------------
(* binary64 values in [-2, 2] that are multiples of 2^-57: a sign and a    *)
(* magnitude in units of 2^-57, held as three limbs <<hi, mid, lo>> of 19   *)
(* bits (hi is not limited).                                                *)

LimbBase == 2^19

BigNorm(h, m, l) ==
    LET m1 == m + (l \div LimbBase)
    IN  <<h + (m1 \div LimbBase), m1 % LimbBase, l % LimbBase>>

BigAdd(a, b) == BigNorm(a[1] + b[1], a[2] + b[2], a[3] + b[3])

BigLess(a, b) ==
    \/ a[1] < b[1]
    \/ a[1] = b[1] /\ a[2] < b[2]
    \/ a[1] = b[1] /\ a[2] = b[2] /\ a[3] < b[3]

\* a - b, for a >= b
BigSub(a, b) ==
    BigNorm(a[1] - b[1] - 1, a[2] - b[2] + LimbBase - 1, a[3] - b[3] + LimbBase)

BitLen(n) == CHOOSE k \in 0..20 : n < 2^k /\ (k = 0 \/ n >= 2^(k - 1))

BigBitLen(a) ==
    IF a[1] > 0 THEN 38 + BitLen(a[1])
    ELSE IF a[2] > 0 THEN 19 + BitLen(a[2])
    ELSE BitLen(a[3])

\* floor(p * 2^57 / dv) and the remainder, for a small divisor dv
BigDivSmall(p, dv) ==
    LET h  == p * LimbBase
        rh == h % dv
        rm == (rh * LimbBase) % dv
    IN  [q |-> <<h \div dv, (rh * LimbBase) \div dv, (rm * LimbBase) \div dv>>,
         r |-> (rm * LimbBase) % dv]

\* The exact value a + r/dv (in units of 2^-57) rounded to 53 significant
\* bits, round-half-to-even: the rounding of every binary64 operation.
RoundEven(a, r, dv) ==
    LET n    == BigBitLen(a)
        d    == IF n > 53 THEN n - 53 ELSE 0
        step == 2^d
        low  == a[3] % step
        keep == <<a[1], a[2], a[3] - low>>
        odd  == (a[3] \div step) % 2 = 1
        up   == IF d = 0
                THEN 2 * r > dv \/ (2 * r = dv /\ odd)
                ELSE \/ 2 * low > step
                     \/ 2 * low = step /\ (r > 0 \/ odd)
    IN  IF up THEN BigAdd(keep, <<0, 0, step>>) ELSE keep

F64One == [neg |-> FALSE, mag |-> <<LimbBase, 0, 0>>]

\* float(p) / 100.0 for a slider per cent p >= 5 (the quotient then has at
\* least 53 bits in units of 2^-57)
F64Div100(p) ==
    LET d == BigDivSmall(p, 100)
    IN  [neg |-> FALSE, mag |-> RoundEven(d.q, d.r, 100)]

\* x - y
F64Sub(x, y) ==
    IF x.neg # y.neg
    THEN [neg |-> x.neg, mag |-> RoundEven(BigAdd(x.mag, y.mag), 0, 1)]
    ELSE IF BigLess(x.mag, y.mag)
         THEN [neg |-> ~x.neg, mag |-> RoundEven(BigSub(y.mag, x.mag), 0, 1)]
         ELSE [neg |-> x.neg /\ x.mag # y.mag,
               mag |-> RoundEven(BigSub(x.mag, y.mag), 0, 1)]

\* x < 0
F64Negative(x) == x.neg /\ x.mag # <<0, 0, 0>>

\* |x - y| < 2^-30 (just under the 1e-9 tolerance of the specification)
F64Near(x, y) == BigLess(F64Sub(x, y).mag, <<0, 2^8, 0>>)

---------------------------------------------------------------------------
(* Money: units of 0.0001 Cr.  Every per-show amount of the script is a    *)
(* multiple of 0.01 Cr, so a rate of p per cent of it is exact.            *)

\* an amount given in hundredths of a Cr
Money(hundredths) == hundredths * 100

\* rate * x, for a rate of p per cent and an amount x that is a multiple of 0.01 Cr
Share(p, x) == p * (x \div 100)

AvgRate(fl, h) == F64Sub(F64Sub(F64One, F64Div100(fl)), F64Div100(h))

\* avg_rate as a per cent, the value the amounts below are computed with
AvgPct(fl, h) == 100 - fl - h

RevFlop(tv) == Money(tv * 20)

\* Mutant: average shows only recover their cost (1.0 typed for 1.1)
RevAvgFlat(tv) == Money(tv * 100)

RevAvg(tv) == Money(tv * 110)

RevHit(tv)  == Money(tv * 200)

LegCost(tv) == N * Money(tv * 100)

\* Mutant: the flop share is paid at the average multiple (rev_avg pasted for rev_flop)
LegRevFlopAsAvg(tv, fl, av, h) ==
    N * (Share(fl, RevAvg(tv)) + Share(av, RevAvg(tv)) + Share(h, RevHit(tv)))

LegRev(tv, fl, av, h) ==
    N * (Share(fl, RevFlop(tv)) + Share(av, RevAvg(tv)) + Share(h, RevHit(tv)))

LegRoi(leg_rev, leg_cost) == leg_rev - leg_cost

PilotSpend(pilot) == N * Money(pilot * 10)

CostAvgShow(tv, pilot) == Money(pilot * 10) + Money(tv * 85)
CostHitShow(tv, pilot) == Money(pilot * 10) + Money(tv * 120)

PropCostAvg(tv, pilot, av) == Share(av, N * CostAvgShow(tv, pilot))
PropCostHits(tv, pilot, h) == Share(h, N * CostHitShow(tv, pilot))

PropTotalCost(pilot_spend, prop_cost_avg, prop_cost_hits) ==
    pilot_spend + prop_cost_avg + prop_cost_hits

PropRev(tv, av, h) == Share(av, N * RevAvg(tv)) + Share(h, N * RevHit(tv))

PropRoi(prop_rev, prop_total_cost) == prop_rev - prop_total_cost

\* Mutant: the operands of the difference swapped
CashFreedSwapped(prop_roi, leg_roi) == leg_roi - prop_roi

CashFreed(prop_roi, leg_roi) == prop_roi - leg_roi

SavingsOnFlops(tv, fl) == Share(fl, N * Money(tv * 100))

CostOfPiloting(pilot) == -1 * (N * Money(pilot * 10))

ContractVariance(tv, fl, leg_cost, prop_cost_avg, prop_cost_hits, cost_of_piloting) ==
    (leg_cost - (Share(fl, N * Money(tv * 100)) + prop_cost_avg + prop_cost_hits
                 + cost_of_piloting)) * (-1)

LostSalvageRev(tv, fl) == -1 * Share(fl, N * RevFlop(tv))

LegWaste(tv, fl) == Share(fl, N * Money(tv * 100))
LegProductive(leg_cost, leg_waste) == leg_cost - leg_waste

PropWaste(pilot, fl) == Share(fl, N * Money(pilot * 10))

\* Mutant: the waste is not taken off the total
PropProductiveGross(prop_total_cost, prop_waste) == prop_total_cost

PropProductive(prop_total_cost, prop_waste) == prop_total_cost - prop_waste

---------------------------------------------------------------------------
(* One run of the script with the given widget values: its variables when  *)
(* the run ends, at st.stop() or at the last line.                          *)

\* Sections 3 to 5, reached only when the run was not stopped
Figures(tv, pilot, fl, h, avg_rate) ==
    LET av                == AvgPct(fl, h)
        leg_cost          == LegCost(tv)
        leg_rev           == LegRev(tv, fl, av, h)
        leg_roi           == LegRoi(leg_rev, leg_cost)
        pilot_spend       == PilotSpend(pilot)
        prop_cost_avg     == PropCostAvg(tv, pilot, av)
        prop_cost_hits    == PropCostHits(tv, pilot, h)
        prop_total_cost   == PropTotalCost(pilot_spend, prop_cost_avg, prop_cost_hits)
        prop_rev          == PropRev(tv, av, h)
        prop_roi          == PropRoi(prop_rev, prop_total_cost)
        cost_of_piloting  == CostOfPiloting(pilot)
        leg_waste         == LegWaste(tv, fl)
        prop_waste        == PropWaste(pilot, fl)
    IN  [status            |-> "done",
         avg_rate          |-> avg_rate,
         leg_cost          |-> leg_cost,
         leg_rev           |-> leg_rev,
         leg_roi           |-> leg_roi,
         pilot_spend       |-> pilot_spend,
         prop_cost_avg     |-> prop_cost_avg,
         prop_cost_hits    |-> prop_cost_hits,
         prop_total_cost   |-> prop_total_cost,
         prop_rev          |-> prop_rev,
         prop_roi          |-> prop_roi,
         cash_freed        |-> CashFreed(prop_roi, leg_roi),
         savings_on_flops  |-> SavingsOnFlops(tv, fl),
         cost_of_piloting  |-> cost_of_piloting,
         contract_variance |-> ContractVariance(tv, fl, leg_cost, prop_cost_avg,
                                                prop_cost_hits, cost_of_piloting),
         lost_salvage_rev  |-> LostSalvageRev(tv, fl),
         leg_waste         |-> leg_waste,
         leg_productive    |-> LegProductive(leg_cost, leg_waste),
         prop_waste        |-> prop_waste,
         prop_productive   |-> PropProductive(prop_total_cost, prop_waste)]

\* Mutant: the error is reported but st.stop() is missing, so the run goes on
ScriptNoStop(tv, pilot, fl, h) == Figures(tv, pilot, fl, h, AvgRate(fl, h))

Script(tv, pilot, fl, h) ==
    LET avg_rate == AvgRate(fl, h)
    IN  IF F64Negative(avg_rate)
        THEN [status |-> "stopped", avg_rate |-> avg_rate]
        ELSE Figures(tv, pilot, fl, h, avg_rate)

\* The names a stopped run never binds: every figure of sections 3 to 5
FigureNames ==
    {"leg_cost", "leg_rev", "leg_roi", "pilot_spend", "prop_cost_avg",
     "prop_cost_hits", "prop_total_cost", "prop_rev", "prop_roi", "cash_freed",
     "savings_on_flops", "cost_of_piloting", "contract_variance",
     "lost_salvage_rev", "leg_waste", "leg_productive", "prop_waste",
     "prop_productive"}

---------------------------------------------------------------------------
(* The session: the page loads with the sliders at their defaults, and     *)
(* every slider change re-runs the script.                                  *)

\* Mutant: a stopped run leaves the figures of the run before it in place
RerunStale(tv, pilot, fl, h) ==
    /\ c_tv' = tv
    /\ c_pilot' = pilot
    /\ flop' = fl
    /\ hit' = h
    /\ ns' = IF Script(tv, pilot, fl, h).status = "stopped"
             THEN [ns EXCEPT !.status = "stopped"]
             ELSE Script(tv, pilot, fl, h)
    /\ stopped_once' = (stopped_once \/ ns.status = "stopped")

Rerun(tv, pilot, fl, h) ==
    /\ c_tv' = tv
    /\ c_pilot' = pilot
    /\ flop' = fl
    /\ hit' = h
    /\ ns' = Script(tv, pilot, fl, h)
    /\ stopped_once' = (stopped_once \/ ns.status = "stopped")

Init ==
    /\ c_tv = DefaultTv
    /\ c_pilot = DefaultPilot
    /\ flop = DefaultFlop
    /\ hit = DefaultHit
    /\ ns = Script(DefaultTv, DefaultPilot, DefaultFlop, DefaultHit)
    /\ stopped_once = FALSE

SetTvCost    == \E v \in TvCosts \ {c_tv} : Rerun(v, c_pilot, flop, hit)
SetPilotCost == \E v \in PilotCosts \ {c_pilot} : Rerun(c_tv, v, flop, hit)
SetFlopRate  == \E v \in FlopPcts \ {flop} : Rerun(c_tv, c_pilot, v, hit)
SetHitRate   == \E v \in HitPcts \ {hit} : Rerun(c_tv, c_pilot, flop, v)

Next == SetTvCost \/ SetPilotCost \/ SetFlopRate \/ SetHitRate

Spec == Init /\ [][Next]_vars

---------------------------------------------------------------------------
(* Properties.                                                             *)

Done == ns.status = "done"

F64Zero == [neg |-> FALSE, mag |-> <<0, 0, 0>>]

\* The binary64 avg_rate of a run agrees, within the tolerance, with the per
\* cent the amounts are computed with.
AvgRateAgrees ==
    LET av == AvgPct(flop, hit)
    IN  /\ av > 0 => F64Near(ns.avg_rate, F64Div100(av))
        /\ av = 0 => F64Near(ns.avg_rate, F64Zero)
        /\ av < 0 => F64Near(ns.avg_rate, [neg |-> TRUE, mag |-> F64Div100(-av).mag])
        /\ Done => av >= 0

\* C1: in every completed run the four relative steps of the waterfall,
\* added to leg_roi, land on prop_roi.
C1_BridgeSumsToProposedRoi ==
    Done => ns.leg_roi + ns.savings_on_flops + ns.cost_of_piloting
            + ns.lost_salvage_rev + ns.contract_variance = ns.prop_roi

\* C2: whenever flop + hit exceeds 100 per cent the run stops at the check
\* and binds none of the figures of sections 3 to 5.
C2_InvalidRatesStop ==
    flop + hit > 100 =>
        /\ ns.status = "stopped"
        /\ F64Negative(ns.avg_rate)
        /\ DOMAIN ns \cap FigureNames = {}

C2_Witness == flop = 80 /\ hit = 30 /\ ns.status = "stopped"

\* C3: the run stops exactly when flop + hit exceeds 100 per cent; with
\* flop + hit = 100 per cent it completes, with avg_rate = 0 (within the
\* tolerance) and every figure bound.
C3_BoundarySucceeds ==
    /\ ns.status = "stopped" <=> flop + hit > 100
    /\ flop + hit = 100 =>
        /\ Done
        /\ F64Near(ns.avg_rate, F64Zero)
        /\ FigureNames \subseteq DOMAIN ns

C5_CapitalSplit ==
    Done =>
        /\ ns.leg_waste + ns.leg_productive = ns.leg_cost
        /\ ns.prop_waste + ns.prop_productive = ns.prop_total_cost
        /\ ns.leg_waste = N * flop * (c_tv * 100)
        /\ ns.prop_waste = N * flop * (c_pilot * 10)
        /\ ns.prop_total_cost = ns.pilot_spend + (ns.prop_cost_avg + ns.prop_cost_hits)

C5_Witness == Done /\ stopped_once /\ ns.leg_waste > 0 /\ ns.prop_productive > 0

\* C6: when only the flop slider moves up, between two completed runs,
\* leg_rev and leg_roi strictly fall and leg_cost stays.
C6_FlopMonotone ==
    [][(/\ Done /\ Done'
        /\ flop' > flop
        /\ c_tv' = c_tv /\ c_pilot' = c_pilot /\ hit' = hit)
       => (/\ ns'.leg_rev < ns.leg_rev
           /\ ns'.leg_roi < ns.leg_roi
           /\ ns'.leg_cost = ns.leg_cost)]_vars

C6_Witness == Done /\ flop = 80 /\ hit = 5 /\ ns.leg_rev < LegRev(c_tv, 30, 65, 5)

\* C7: in every completed run leg_roi = leg_rev - leg_cost, prop_roi =
\* prop_rev - prop_total_cost with prop_total_cost = pilot_spend +
\* production cost, and cash_freed = prop_roi - leg_roi.
C7_RoiIdentities ==
    Done =>
        /\ ns.leg_roi = ns.leg_rev - ns.leg_cost
        /\ ns.prop_total_cost = ns.pilot_spend + (ns.prop_cost_avg + ns.prop_cost_hits)
        /\ ns.prop_roi = ns.prop_rev - ns.prop_total_cost
        /\ ns.cash_freed = ns.prop_roi - ns.leg_roi

C7_Witness ==
    /\ Done /\ stopped_once /\ c_tv # DefaultTv
    /\ ns.leg_roi < 0 /\ ns.prop_roi > 0 /\ ns.cash_freed > 0

C9_PilotCountedOnce ==
    Done =>
        ns.prop_total_cost =
            N * flop * (c_pilot * 10)
            + N * (100 - flop - hit) * (c_pilot * 10 + c_tv * 85)
            + N * hit * (c_pilot * 10 + c_tv * 120)

\* C10: in every completed run cash_freed is non-negative.
C10_CashFreedNonNegative == Done => ns.cash_freed >= 0

====
